---------------------------- MODULE Spec2Model ----------------------------
(***************************************************************************)
(* A model of src/app.py: the ChordPro conversion web service.             *)
(*                                                                         *)
(* Text is modelled as a sequence of symbols.  A symbol is a one-character *)
(* string (" ", ",", "a", ...) or an indivisible piece of a longer text    *)
(* ("/tmp/input_", ".cho", "--config", ...).  Python's str methods         *)
(* (strip, split, replace, in) are modelled symbol by symbol.              *)
(***************************************************************************)
EXTENDS Integers, Sequences, FiniteSets, TLC

(***************************************************************************)
(* Bounds of the model.                                                    *)
(***************************************************************************)
\* Number of requests of one run (they may overlap in time).
NumReq == 2
\* Longest text drawn for the API_KEYS variable and for a config option.
MaxTextLen == 3
\* Longest standard-error text drawn for the sanitizer.
MaxErrLen == 6

(***************************************************************************)
(* Python str operations on symbol sequences.                              *)
(***************************************************************************)
Whitespace == {" "}

\* All texts over alphabet A of length 0..n.
TextsUpTo(A, n) == UNION {[1..k -> A] : k \in 0..n}

\* s[i..] starts with p  (1-based i).
StartsWithAt(s, p, i) ==
    /\ i + Len(p) - 1 <= Len(s)
    /\ \A k \in 1..Len(p) : s[i + k - 1] = p[k]

\* Python: p in s
Contains(s, p) == \E i \in 1..(Len(s) + 1) : StartsWithAt(s, p, i)

RECURSIVE LStrip(_)
LStrip(s) == IF s # <<>> /\ Head(s) \in Whitespace THEN LStrip(Tail(s)) ELSE s

RECURSIVE RStrip(_)
RStrip(s) ==
    IF s # <<>> /\ s[Len(s)] \in Whitespace
    THEN RStrip(SubSeq(s, 1, Len(s) - 1))
    ELSE s

\* Python: s.strip()
Strip(s) == RStrip(LStrip(s))

\* Python: s.split(sep) for a one-symbol separator: always at least one piece.
RECURSIVE SplitFrom(_, _, _)
SplitFrom(s, sep, cur) ==
    IF s = <<>> THEN <<cur>>
    ELSE IF Head(s) = sep THEN <<cur>> \o SplitFrom(Tail(s), sep, <<>>)
    ELSE SplitFrom(Tail(s), sep, Append(cur, Head(s)))

Split(s, sep) == SplitFrom(s, sep, <<>>)

\* Python: s.replace(old, new) for non-empty old: leftmost, non-overlapping.
RECURSIVE Replace(_, _, _)
Replace(s, old, new) ==
    IF s = <<>> THEN <<>>
    ELSE IF StartsWithAt(s, old, 1)
         THEN new \o Replace(SubSeq(s, Len(old) + 1, Len(s)), old, new)
         ELSE <<Head(s)>> \o Replace(Tail(s), old, new)

\* Python: [f(x) for x in seq]
RECURSIVE MapStrip(_)
MapStrip(seq) ==
    IF seq = <<>> THEN <<>> ELSE <<Strip(Head(seq))>> \o MapStrip(Tail(seq))

\* Python: [x for x in seq if x]  (a text is truthy iff non-empty)
RECURSIVE FilterNonEmpty(_)
FilterNonEmpty(seq) ==
    IF seq = <<>> THEN <<>>
    ELSE IF Head(seq) # <<>> THEN <<Head(seq)>> \o FilterNonEmpty(Tail(seq))
    ELSE FilterNonEmpty(Tail(seq))

Range(seq) == {seq[i] : i \in 1..Len(seq)}


(***************************************************************************)
(* JSON / Python values, tagged with their Python type.                    *)
(*   str   v: a text         int  v: an integer      bool  v: a boolean    *)
(*   list  v: a sequence of values                                          *)
(*   dict  v: a sequence of <<key, value>> pairs in insertion order, the    *)
(*            keys distinct one-symbol names                                *)
(*   none  v: <<>>                                                          *)
(* A request's content is never inspected symbol by symbol: it is a str    *)
(* value [t |-> "str", chars |-> n, bytes |-> m] of n characters whose     *)
(* UTF-8 encoding has m bytes.                                              *)
(***************************************************************************)
VNone == [t |-> "none", v |-> <<>>]
VStr(s) == [t |-> "str", v |-> s]
VInt(n) == [t |-> "int", v |-> n]
VBool(b) == [t |-> "bool", v |-> b]
VList(seq) == [t |-> "list", v |-> seq]
VDict(pairs) == [t |-> "dict", v |-> pairs]
VContent(n, m) == [t |-> "str", chars |-> n, bytes |-> m]

\* Python: isinstance(x, int) -- bool is a subclass of int.
IsInstanceInt(x) == x.t \in {"int", "bool"}

\* Python truthiness: not x
Falsy(x) ==
    CASE x.t = "none" -> TRUE
      [] x.t = "str"  -> IF "chars" \in DOMAIN x THEN x.chars = 0 ELSE x.v = <<>>
      [] x.t = "int"  -> x.v = 0
      [] x.t = "bool" -> ~x.v
      [] OTHER        -> x.v = <<>>

\* Python: k in d
HasKey(d, k) == \E i \in 1..Len(d.v) : d.v[i][1] = k

\* Python: d[k]  (k in d)
Item(d, k) == d.v[CHOOSE i \in 1..Len(d.v) : d.v[i][1] = k][2]

\* Python: d.get(k, default)
Get(d, k, default) == IF HasKey(d, k) THEN Item(d, k) ELSE default

\* Python: str(x) / f"{x}" of a value, as a text.
PyStr(x) ==
    CASE x.t = "str"  -> x.v
      [] x.t = "int"  -> <<ToString(x.v)>>
      [] x.t = "bool" -> IF x.v THEN <<"True">> ELSE <<"False">>
      [] x.t = "none" -> <<"None">>
      [] x.t = "list" -> <<"[...]">>
      [] OTHER        -> <<"{...}">>


(***************************************************************************)
(* Authentication configuration: load_api_keys, is_valid_api_key.          *)
(***************************************************************************)
\* Python: s.lower() on the values drawn for DEVELOPMENT_MODE.
Lower(s) ==
    CASE s = "TRUE" -> "true"
      [] s = "True" -> "true"
      [] s = "On"   -> "on"
      [] s = "YES"  -> "yes"
      [] OTHER      -> s

DevTruthy == {"true", "1", "yes", "on"}

\* An environment: DEVELOPMENT_MODE, API_KEYS (a text, "" when unset) and
\* the values of the API_KEY_* variables in os.environ order.
Environ(dev, keys, indiv) == [DEVELOPMENT_MODE |-> dev, API_KEYS |-> keys, API_KEY_ |-> indiv]

\* line 73
LoadedDevelopmentMode(env) == Lower(env.DEVELOPMENT_MODE) \in DevTruthy

\* line 78: [key.strip() for key in api_keys_env.split(',') if key.strip()]
KeysFromList(text) ==
    IF text = <<>> THEN <<>> ELSE FilterNonEmpty(MapStrip(Split(text, ",")))

\* lines 84-87: every non-empty API_KEY_* value is added stripped.
KeysFromIndividual(indiv) ==
    {Strip(indiv[i]) : i \in {j \in 1..Len(indiv) : indiv[j] # <<>>}}

\* VALID_API_KEYS after lines 76-87 (the set is empty before the call).
LoadedKeys(env) == Range(KeysFromList(env.API_KEYS)) \cup KeysFromIndividual(env.API_KEY_)

\* As RefusesToStart, had the check of line 98 been left out.
RefusesToStart_never(keys, dev) == FALSE

\* line 98: the start is refused.
RefusesToStart(keys, dev) == keys = {} /\ ~dev

\* As secure_compare_api_key, had the presented key been stripped before comparing.
secure_compare_api_key_stripped(provided_key, valid_key) ==
    /\ provided_key.t = "str"
    /\ Strip(provided_key.v) = valid_key

\* secure_compare_api_key: both str, equal UTF-8 bytes (texts equal symbol by symbol).
secure_compare_api_key(provided_key, valid_key) ==
    /\ provided_key.t = "str"
    /\ provided_key.v = valid_key

\* is_valid_api_key over the stored set `keys`.
is_valid_api_key(provided_key, keys) ==
    /\ ~Falsy(provided_key)
    /\ \E valid_key \in keys : secure_compare_api_key(provided_key, valid_key)

\* The orders in which `for valid_key in VALID_API_KEYS` (line 62) may visit
\* the set: a Python set of str has no order the program chooses.
IterationOrders(keys) ==
    { order \in [1..Cardinality(keys) -> keys] :
        \A i, j \in 1..Cardinality(keys) : order[i] = order[j] => i = j }

\* lines 62-66: the calls of secure_compare_api_key the loop makes when it
\* visits the keys in `order`; `return True` of line 64 ends the loop.
RECURSIVE LoopComparisons(_, _)
LoopComparisons(provided_key, order) ==
    IF order = <<>> THEN 0
    ELSE IF secure_compare_api_key(provided_key, Head(order)) THEN 1
    ELSE 1 + LoopComparisons(provided_key, Tail(order))

\* The comparisons one request causes: lines 117-126 call is_valid_api_key
\* only outside development mode and for a header that is present and not
\* empty; the routes without the decorator never call it.
Comparisons(endpoint, dev, api_key, order) ==
    IF endpoint \in {"health", "index"} \/ dev \/ Falsy(api_key) THEN 0
    ELSE LoopComparisons(api_key, order)

OpenEndpoints == {"health", "index"}
ProtectedEndpoints == {"convert", "get_formats", "get_options"}

\* require_api_key: TRUE when the wrapped handler runs. api_key is the
\* X-API-Key header (VNone when absent).
require_api_key(endpoint, dev, api_key, keys) ==
    \/ endpoint \in OpenEndpoints
    \/ dev
    \/ ~(Falsy(api_key) \/ ~is_valid_api_key(api_key, keys))

(***************************************************************************)
(* ChordProProcessor: command construction.                                *)
(***************************************************************************)
supported_outputs == {"pdf", "text", "cho", "html"}
base_cmd == <<VStr(<<"chordpro">>)>>

Flag(name) == VStr(<<name>>)

\* lines 227-229
RECURSIVE MetaArgs(_)
MetaArgs(pairs) ==
    IF pairs = <<>> THEN <<>>
    ELSE <<Flag("--meta"), VStr(<<Head(pairs)[1], "=">> \o PyStr(Head(pairs)[2]))>>
         \o MetaArgs(Tail(pairs))

\* lines 237-238: one --config per piece, the piece a text.
RECURSIVE ConfigArgsOfTexts(_)
ConfigArgsOfTexts(pieces) ==
    IF pieces = <<>> THEN <<>>
    ELSE <<Flag("--config"), VStr(Head(pieces))>> \o ConfigArgsOfTexts(Tail(pieces))

\* lines 241-242: one --config per list item, the item passed as it is.
RECURSIVE ConfigArgsOfItems(_)
ConfigArgsOfItems(items) ==
    IF items = <<>> THEN <<>>
    ELSE <<Flag("--config"), Head(items)>> \o ConfigArgsOfItems(Tail(items))

\* line 236: configs = [c.strip() for c in config_value.split(',')]
ConfigPieces(text) == MapStrip(Split(text, ","))

\* lines 232-245
ConfigArgs(config_value) ==
    CASE config_value.t = "str"  -> ConfigArgsOfTexts(ConfigPieces(config_value.v))
      [] config_value.t = "list" -> ConfigArgsOfItems(config_value.v)
      [] OTHER -> <<Flag("--config"), VStr(PyStr(config_value))>>

\* lines 248-252
DiagramsArgs(value) ==
    IF ~Falsy(value) THEN <<Flag("--diagrams")>> ELSE <<Flag("--no-diagrams")>>

\* The tokens of the options taken one by one in insertion order.
RECURSIVE OptionArgsInKeyOrder(_)
OptionArgsInKeyOrder(pairs) ==
    IF pairs = <<>> THEN <<>>
    ELSE LET key == Head(pairs)[1]
             value == Head(pairs)[2]
         IN  (CASE key = "transpose" -> <<Flag("--transpose"), VStr(PyStr(value))>>
                [] key = "meta"      -> MetaArgs(value.v)
                [] key = "config"    -> ConfigArgs(value)
                [] key = "diagrams"  -> DiagramsArgs(value)
                [] OTHER             -> <<>>)
             \o OptionArgsInKeyOrder(Tail(pairs))

\* As _add_options, had it looped over options.items().
_add_options_in_key_order(options) == OptionArgsInKeyOrder(options.v)

\* _add_options: the tokens appended to cmd (options a dict whose meta,
\* when present, is a dict).
_add_options(options) ==
    (IF HasKey(options, "transpose")
     THEN <<Flag("--transpose"), VStr(PyStr(Item(options, "transpose")))>> ELSE <<>>)
    \o (IF HasKey(options, "meta") THEN MetaArgs(Item(options, "meta").v) ELSE <<>>)
    \o (IF HasKey(options, "config") THEN ConfigArgs(Item(options, "config")) ELSE <<>>)
    \o (IF HasKey(options, "diagrams") THEN DiagramsArgs(Item(options, "diagrams")) ELSE <<>>)

\* lines 161-163
InputPath(input_id) == <<"/tmp/input_", input_id, ".cho">>
OutputPath(input_id, output_format) == <<"/tmp/output_", input_id, ".">> \o output_format

\* lines 173-177
BuildCmd(input_path, output_path, options) ==
    base_cmd \o <<VStr(input_path), Flag("-o"), VStr(output_path)>> \o _add_options(options)

\* _get_content_type
_get_content_type(output_format) ==
    CASE output_format = <<"pdf">>  -> "application/pdf"
      [] output_format = <<"text">> -> "text/plain"
      [] output_format = <<"cho">>  -> "text/plain"
      [] output_format = <<"html">> -> "text/html"
      [] OTHER -> "application/octet-stream"


(***************************************************************************)
(* Error texts.                                                            *)
(***************************************************************************)
Redacted == <<"<input>">>

\* Python: s.replace(old, new, 1)
ReplaceFirst(s, old, new) ==
    IF s = <<>> THEN <<>>
    ELSE IF \E i \in 1..Len(s) : StartsWithAt(s, old, i)
         THEN LET i == CHOOSE j \in 1..Len(s) :
                         /\ StartsWithAt(s, old, j)
                         /\ \A k \in 1..(j - 1) : ~StartsWithAt(s, old, k)
              IN  SubSeq(s, 1, i - 1) \o new \o SubSeq(s, i + Len(old), Len(s))
         ELSE s

\* As SanitizedStderr, had only the first occurrence been replaced.
SanitizedStderr_first_only(stderr, input_path) ==
    LET error_msg == IF stderr # <<>> THEN Strip(stderr) ELSE <<"Unknown ChordPro error">>
    IN  ReplaceFirst(error_msg, input_path, <<"<input>">>)

\* lines 205-207: the diagnostic taken from the renderer's standard error.
SanitizedStderr(stderr, input_path) ==
    LET error_msg == IF stderr # <<>> THEN Strip(stderr) ELSE <<"Unknown ChordPro error">>
    IN  IF Contains(error_msg, input_path)
        THEN Replace(error_msg, input_path, Redacted)
        ELSE error_msg

\* line 201
TimeoutMessage == <<"ChordPro processing timed out">>
\* line 208
RendererFailedMessage(stderr, input_path) ==
    <<"ChordPro processing failed: ">> \o SanitizedStderr(stderr, input_path)
\* line 211: str(e) of the exception caught by `except Exception`
UnexpectedMessage(e) == <<"Processing failed: ">> \o e
\* line 192
NoOutputText == <<"ChordPro did not generate output file">>

\* str(e) of the OSError raised by open(input_path, 'w'): it names the file.
OpenErrorText(input_path) == <<"[Errno 13] Permission denied: '">> \o input_path \o <<"'">>
\* str(e) of the OSError raised by f.write / close: no file name.
WriteErrorText == <<"[Errno 28] No space left on device">>
\* str(e) of the TypeError raised by Popen for an argument that is no str.
ArgTypeErrorText == <<"expected str, bytes or os.PathLike object, not int">>
\* str(e) of the FileNotFoundError raised by Popen when the renderer is not installed.
NoRendererText == <<"[Errno 2] No such file or directory: 'chordpro'">>

\* ' '.join(cmd), the command line as one text.
RECURSIVE JoinArgs(_)
JoinArgs(cmd) ==
    IF cmd = <<>> THEN <<>>
    ELSE IF Len(cmd) = 1 THEN PyStr(Head(cmd))
    ELSE PyStr(Head(cmd)) \o <<" ">> \o JoinArgs(Tail(cmd))

(***************************************************************************)
(* convert: request validation, lines 322-354.                             *)
(***************************************************************************)
MaxContentChars == 1048576

Ok == [kind |-> "ok", msg |-> <<>>]
Bad(text) == [kind |-> "BadRequest", msg |-> <<text>>]
\* any other exception: convert's `except Exception` answers "Processing failed"
Crash == [kind |-> "Exception", msg |-> <<"Processing failed">>]

\* lines 346-354: the first offending option in insertion order.
RECURSIVE ValidateOptions(_)
ValidateOptions(pairs) ==
    IF pairs = <<>> THEN Ok
    ELSE LET key == Head(pairs)[1]
             value == Head(pairs)[2]
         IN  IF key = "transpose" /\ ~IsInstanceInt(value)
                 THEN Bad("'transpose' option must be an integer")
             ELSE IF key = "meta" /\ value.t # "dict"
                 THEN Bad("'meta' option must be an object")
             ELSE IF key = "diagrams" /\ value.t # "bool"
                 THEN Bad("'diagrams' option must be a boolean")
             ELSE IF key = "config" /\ value.t \notin {"str", "list"}
                 THEN Bad("'config' option must be a string or array")
             ELSE ValidateOptions(Tail(pairs))

DefaultFormat == VStr(<<"pdf">>)

\* lines 322-354
Validate(data) ==
    IF Falsy(data) THEN Bad("JSON body required")
    ELSE IF data.t # "dict" THEN Crash
    ELSE LET content == Get(data, "content", VNone)
             output_format == Get(data, "output_format", DefaultFormat)
             options == Get(data, "options", VDict(<<>>))
         IN  IF Falsy(content) THEN Bad("'content' field is required")
             ELSE IF content.t # "str" THEN Bad("'content' must be a string")
             ELSE IF content.chars > MaxContentChars THEN Bad("Content too large (max 1MB)")
             ELSE IF output_format.t # "str" THEN Bad("'output_format' must be a string")
             ELSE IF options.t # "dict" THEN Bad("'options' must be an object")
             ELSE ValidateOptions(options.v)


(***************************************************************************)
(* State.                                                                  *)
(***************************************************************************)
Req == 1..NumReq

VARIABLES
    environ,            \* os.environ at import time
    started,            \* "import" | "serving" | "exited" (sys.exit(1))
    VALID_API_KEYS,     \* module global, line 41
    key_order,          \* the order in which this process iterates VALID_API_KEYS
    DEVELOPMENT_MODE,   \* module global, line 42
    files,              \* the paths that exist under /tmp
    pc,                 \* per request: where its handler stands
    request,            \* per request: endpoint, X-API-Key header, JSON body
    input_path,         \* per request: process's input_path
    output_path,        \* per request: process's output_path
    cmd,                \* per request: the renderer's command
    child,              \* per request: the renderer process, its exit code and stderr
    session,            \* per request: how process ends, and its RuntimeError text
    held_output,        \* per request: convert's local output_path (<<>> is None)
    response,           \* per request: what the caller receives
    hist                \* per request: what the session has done so far

vars == <<environ, started, VALID_API_KEYS, key_order, DEVELOPMENT_MODE, files, pc,
          request, input_path, output_path, cmd, child, session, held_output,
          response, hist>>

globals == <<environ, started, VALID_API_KEYS, key_order, DEVELOPMENT_MODE>>

NoRequest == [endpoint |-> "", api_key |-> VNone, data |-> VNone]
NoSession == [outcome |-> "none", cause |-> "", msg |-> <<>>]
NoResponse == [status |-> 0, msg |-> <<>>, mimetype |-> ""]
NoChild == [state |-> "none", returncode |-> 0, stderr |-> <<>>]
NoHist == [compared |-> 0, opened |-> FALSE, written |-> FALSE, spawned |-> 0,
           rendered |-> FALSE,
           input_unlink_failed |-> FALSE, output_unlink_failed |-> FALSE]

(***************************************************************************)
(* Inputs of the lifecycle specification.                                  *)
(***************************************************************************)
EnvChoices ==
    { Environ("", <<"a">>, <<>>),
      Environ("", <<>>, <<>>) }

KeyChoices == {VNone, VStr(<<"a">>)}

SmallContent == VContent(1, 1)

Body(content, output_format, options) ==
    VDict(<< <<"content", content>>, <<"output_format", output_format>>,
             <<"options", options>> >>)

Opt(key, value) == VDict(<< <<key, value>> >>)

RejectedBodies ==
    { VNone, VDict(<<>>), VList(<<VInt(1)>>),
      VDict(<< <<"output_format", VStr(<<"pdf">>)>> >>),
      Body(VInt(5), VStr(<<"pdf">>), VDict(<<>>)),
      Body(VContent(0, 0), VStr(<<"pdf">>), VDict(<<>>)),
      Body(VContent(MaxContentChars + 1, MaxContentChars + 1), VStr(<<"pdf">>), VDict(<<>>)),
      Body(SmallContent, VInt(1), VDict(<<>>)),
      Body(SmallContent, VStr(<<"docx">>), VDict(<<>>)),
      Body(SmallContent, VStr(<<"pdf">>), VList(<<>>)),
      Body(SmallContent, VStr(<<"pdf">>), Opt("transpose", VStr(<<"2">>))),
      Body(SmallContent, VStr(<<"pdf">>), Opt("meta", VList(<<>>))),
      Body(SmallContent, VStr(<<"pdf">>), Opt("diagrams", VInt(1))),
      Body(SmallContent, VStr(<<"pdf">>), Opt("config", VInt(1))) }

AcceptedBodies ==
    { Body(SmallContent, VStr(<<"html">>), Opt("config", VStr(<<"a", ",", " ", "b">>))) }

BodyChoices == RejectedBodies \cup AcceptedBodies

\* What the renderer may print on standard error.
StderrChoices(inp, out) ==
    { <<>>, <<" ">>, <<"e">>, <<"e", " ">> \o inp \o <<":">> \o inp \o <<" ">>,
      <<"e", " ">> \o out }

(***************************************************************************)
(* Start-up: load_api_keys(), line 134.                                    *)
(***************************************************************************)
InitWith(envs) ==
    /\ environ \in envs
    /\ started = "import"
    /\ VALID_API_KEYS = {}
    /\ key_order = <<>>
    /\ DEVELOPMENT_MODE = FALSE
    /\ files = {}
    /\ pc = [r \in Req |-> "idle"]
    /\ request = [r \in Req |-> NoRequest]
    /\ input_path = [r \in Req |-> <<>>]
    /\ output_path = [r \in Req |-> <<>>]
    /\ cmd = [r \in Req |-> <<>>]
    /\ child = [r \in Req |-> NoChild]
    /\ session = [r \in Req |-> NoSession]
    /\ held_output = [r \in Req |-> <<>>]
    /\ response = [r \in Req |-> NoResponse]
    /\ hist = [r \in Req |-> NoHist]

Init == InitWith(EnvChoices)

load_api_keys ==
    /\ started = "import"
    /\ DEVELOPMENT_MODE' = LoadedDevelopmentMode(environ)
    /\ VALID_API_KEYS' = VALID_API_KEYS \cup LoadedKeys(environ)
    /\ key_order' \in IterationOrders(VALID_API_KEYS')
    /\ started' = IF RefusesToStart(VALID_API_KEYS', DEVELOPMENT_MODE')
                  THEN "exited" ELSE "serving"
    /\ UNCHANGED <<environ, files, pc, request, input_path, output_path, cmd,
                   child, session, held_output, response, hist>>


(***************************************************************************)
(* A request: require_api_key, then the handler.                           *)
(***************************************************************************)
UnauthorizedText == <<"Valid API key required. Include 'X-API-Key' header.">>

Answer(status, msg, mimetype) == [status |-> status, msg |-> msg, mimetype |-> mimetype]

\* As FormatSupported, had the check of line 155 been left out.
FormatSupported_any(output_format) == TRUE

\* line 155
FormatSupported(output_format) ==
    Len(output_format) = 1 /\ output_format[1] \in supported_outputs

RequestedFormat(data) == Get(data, "output_format", DefaultFormat).v
RequestedOptions(data) == Get(data, "options", VDict(<<>>))

\* What the request comes to before any file is touched: an answer, or
\* status 0 when process goes on to allocate its paths (line 161).
EarlyAnswer(endpoint, api_key, data) ==
    IF ~require_api_key(endpoint, DEVELOPMENT_MODE, api_key, VALID_API_KEYS)
        THEN Answer(401, UnauthorizedText, "")
    ELSE IF endpoint # "convert" THEN Answer(200, <<>>, "application/json")
    ELSE IF Validate(data).kind = "BadRequest" THEN Answer(400, Validate(data).msg, "")
    ELSE IF Validate(data).kind = "Exception" THEN Answer(500, Crash.msg, "")
    \* ValueError of line 156, caught by convert's `except Exception`
    ELSE IF ~FormatSupported(RequestedFormat(data)) THEN Answer(500, Crash.msg, "")
    ELSE NoResponse

\* As Uuid4, had the temporary files been given one fixed name.
Uuid4_fixed(r) == "0"

\* line 161: str(uuid.uuid4()), a value no other session draws: the session's
\* own number stands for it.
Uuid4(r) == ToString(r)

\* The request arrives; lines 115-130, and for convert lines 318-357 and 155-163.
Receive(r, endpoint, api_key, data) ==
    /\ started = "serving"
    /\ pc[r] = "idle"
    /\ request' = [request EXCEPT ![r] =
                      [endpoint |-> endpoint, api_key |-> api_key, data |-> data]]
    /\ hist' = [hist EXCEPT ![r].compared =
                    Comparisons(endpoint, DEVELOPMENT_MODE, api_key, key_order)]
    /\ LET early == EarlyAnswer(endpoint, api_key, data)
           input_id == Uuid4(r)
       IN  IF early.status # 0
           THEN /\ response' = [response EXCEPT ![r] = early]
                /\ pc' = [pc EXCEPT ![r] = "done"]
                /\ UNCHANGED <<input_path, output_path>>
           ELSE /\ input_path' = [input_path EXCEPT ![r] = InputPath(input_id)]
                /\ output_path' = [output_path EXCEPT ![r] =
                                      OutputPath(input_id, RequestedFormat(data))]
                /\ pc' = [pc EXCEPT ![r] = "created"]
                /\ UNCHANGED response
    /\ UNCHANGED <<globals, files, cmd, child, session, held_output>>

Failed(cause, msg) == [outcome |-> "failed", cause |-> cause, msg |-> msg]

\* As WriteInput, had a failure of f.write been logged and passed over.
WriteInput_ignoring_write_failure(r, how) ==
    /\ pc[r] = "created"
    /\ CASE how = "ok" ->
              /\ files' = files \cup {input_path[r]}
              /\ cmd' = [cmd EXCEPT ![r] = BuildCmd(input_path[r], output_path[r],
                                               RequestedOptions(request[r].data))]
              /\ hist' = [hist EXCEPT ![r].opened = TRUE, ![r].written = TRUE]
              /\ pc' = [pc EXCEPT ![r] = "input-written"]
              /\ UNCHANGED session
         [] how = "open fails" ->
              /\ session' = [session EXCEPT ![r] =
                     Failed("write", UnexpectedMessage(OpenErrorText(input_path[r])))]
              /\ pc' = [pc EXCEPT ![r] = "process-exit"]
              /\ UNCHANGED <<files, cmd, hist>>
         [] how = "write fails" ->
              /\ files' = files \cup {input_path[r]}
              /\ cmd' = [cmd EXCEPT ![r] = BuildCmd(input_path[r], output_path[r],
                                               RequestedOptions(request[r].data))]
              /\ hist' = [hist EXCEPT ![r].opened = TRUE]
              /\ pc' = [pc EXCEPT ![r] = "input-written"]
              /\ UNCHANGED session
    /\ UNCHANGED <<globals, request, input_path, output_path, child,
                   held_output, response>>

\* lines 169-177: open, write, close the input file, then build the command.
WriteInput(r, how) ==
    /\ pc[r] = "created"
    /\ CASE how = "ok" ->
              /\ files' = files \cup {input_path[r]}
              /\ cmd' = [cmd EXCEPT ![r] = BuildCmd(input_path[r], output_path[r],
                                               RequestedOptions(request[r].data))]
              /\ hist' = [hist EXCEPT ![r].opened = TRUE, ![r].written = TRUE]
              /\ pc' = [pc EXCEPT ![r] = "input-written"]
              /\ UNCHANGED session
         [] how = "open fails" ->
              /\ session' = [session EXCEPT ![r] =
                     Failed("write", UnexpectedMessage(OpenErrorText(input_path[r])))]
              /\ pc' = [pc EXCEPT ![r] = "process-exit"]
              /\ UNCHANGED <<files, cmd, hist>>
         [] how = "write fails" ->
              /\ files' = files \cup {input_path[r]}
              /\ hist' = [hist EXCEPT ![r].opened = TRUE]
              /\ session' = [session EXCEPT ![r] =
                     Failed("write", UnexpectedMessage(WriteErrorText))]
              /\ pc' = [pc EXCEPT ![r] = "process-exit"]
              /\ UNCHANGED cmd
    /\ UNCHANGED <<globals, request, input_path, output_path, child,
                   held_output, response>>

\* line 182: subprocess.run starts the renderer.
Spawn(r, installed) ==
    /\ pc[r] = "input-written"
    /\ IF \E i \in 1..Len(cmd[r]) : cmd[r][i].t # "str"
       THEN /\ session' = [session EXCEPT ![r] =
                   Failed("spawn", UnexpectedMessage(ArgTypeErrorText))]
            /\ pc' = [pc EXCEPT ![r] = "process-exit"]
            /\ installed
            /\ UNCHANGED <<child, hist>>
       ELSE IF ~installed
       THEN /\ session' = [session EXCEPT ![r] =
                   Failed("spawn", UnexpectedMessage(NoRendererText))]
            /\ pc' = [pc EXCEPT ![r] = "process-exit"]
            /\ UNCHANGED <<child, hist>>
       ELSE /\ child' = [child EXCEPT ![r].state = "running"]
            /\ hist' = [hist EXCEPT ![r].spawned = @ + 1]
            /\ pc' = [pc EXCEPT ![r] = "renderer-running"]
            /\ UNCHANGED session
    /\ UNCHANGED <<globals, files, request, input_path, output_path, cmd,
                   held_output, response>>

\* The renderer creates the file named by -o.
RendererWrites(r) ==
    /\ pc[r] = "renderer-running"
    /\ child[r].state = "running"
    /\ output_path[r] \notin files
    /\ files' = files \cup {output_path[r]}
    /\ hist' = [hist EXCEPT ![r].rendered = TRUE]
    /\ UNCHANGED <<globals, pc, request, input_path, output_path, cmd, child,
                   session, held_output, response>>

\* As ExitOutcome, had the check of line 190 been left out.
ExitOutcome_trusting_exit_code(returncode, stderr, inp, out_exists) ==
    IF returncode # 0 THEN Failed("exit", RendererFailedMessage(stderr, inp))
    ELSE [outcome |-> "succeeded", cause |-> "", msg |-> <<>>]

\* What process makes of the renderer's exit: lines 190-197 and 202-208.
ExitOutcome(returncode, stderr, inp, out_exists) ==
    IF returncode # 0 THEN Failed("exit", RendererFailedMessage(stderr, inp))
    ELSE IF ~out_exists THEN Failed("missing", UnexpectedMessage(NoOutputText))
    ELSE [outcome |-> "succeeded", cause |-> "", msg |-> <<>>]

\* The renderer exits within the timeout; subprocess.run returns or raises
\* CalledProcessError (check=True).
RendererExits(r, returncode, stderr) ==
    /\ pc[r] = "renderer-running"
    /\ child[r].state = "running"
    /\ child' = [child EXCEPT ![r] =
           [state |-> "exited", returncode |-> returncode, stderr |-> stderr]]
    /\ session' = [session EXCEPT ![r] =
           ExitOutcome(returncode, stderr, input_path[r], output_path[r] \in files)]
    /\ pc' = [pc EXCEPT ![r] = "process-exit"]
    /\ UNCHANGED <<globals, files, request, input_path, output_path, cmd,
                   held_output, response, hist>>

\* As TimeoutOutcome, had TimeoutExpired been left to `except Exception`.
TimeoutOutcome_unhandled == Failed("timeout", UnexpectedMessage(<<"Command timed out">>))

\* What process makes of TimeoutExpired: lines 199-201.
TimeoutOutcome == [outcome |-> "timed-out", cause |-> "", msg |-> TimeoutMessage]

\* The 30 seconds pass: subprocess.run kills the child, waits for it and
\* raises TimeoutExpired.
RendererTimesOut(r) ==
    /\ pc[r] = "renderer-running"
    /\ child[r].state = "running"
    /\ child' = [child EXCEPT ![r].state = "killed"]
    /\ session' = [session EXCEPT ![r] = TimeoutOutcome]
    /\ pc' = [pc EXCEPT ![r] = "process-exit"]
    /\ UNCHANGED <<globals, files, request, input_path, output_path, cmd,
                   held_output, response, hist>>

\* os.path.exists(path) and os.unlink(path), the unlink succeeding or not.
AfterUnlink(fs, path, unlink_ok) == IF unlink_ok THEN fs \ {path} ELSE fs

\* The output path convert holds once process has ended (line 357 assigns it
\* only when process returns).
HeldAfterProcess(s, out) == IF s.outcome = "succeeded" THEN out ELSE <<>>

\* As FilesAfterProcess, had the cleanup stood at the end of the try block.
FilesAfterProcess_on_success_only(fs, inp, s, unlink_ok) ==
    IF s.outcome = "succeeded" /\ inp \in fs THEN AfterUnlink(fs, inp, unlink_ok) ELSE fs

\* process's finally, lines 212-218: it runs however the try block ended (s).
FilesAfterProcess(fs, inp, s, unlink_ok) ==
    IF inp \in fs THEN AfterUnlink(fs, inp, unlink_ok) ELSE fs

\* As FailureAnswer, had a failure of process been answered as a bad request.
FailureAnswer_as_bad_request(msg) == Answer(400, msg, "")

\* lines 374-376: a RuntimeError of process becomes InternalServerError(str(e)).
FailureAnswer(msg) == Answer(500, msg, "")

\* As AfterCleanup, had the error of os.unlink been left to propagate out of
\* the finally block (convert's `except Exception` then answers it).
AfterCleanup_propagating(s, unlink_ok) ==
    IF unlink_ok THEN s ELSE Failed("cleanup", Crash.msg)

\* lines 215-218: an exception of os.unlink is caught and logged; process
\* still ends as its try block ended (s).
AfterCleanup(s, unlink_ok) == s

\* process's finally (lines 212-218); then process returns to line 357, or
\* raises into convert's handlers (lines 374-379) and finally (lines 380-386).
ProcessExit(r, unlink_ok) ==
    /\ pc[r] = "process-exit"
    /\ unlink_ok \/ input_path[r] \in files
    /\ files' = FilesAfterProcess(files, input_path[r], session[r], unlink_ok)
    /\ hist' = [hist EXCEPT ![r].input_unlink_failed = @ \/ ~unlink_ok]
    /\ session' = [session EXCEPT ![r] = AfterCleanup(session[r], unlink_ok)]
    /\ held_output' = [held_output EXCEPT ![r] = HeldAfterProcess(session'[r], output_path[r])]
    /\ IF session'[r].outcome = "succeeded"
       THEN /\ pc' = [pc EXCEPT ![r] = "send"]
            /\ UNCHANGED response
       ELSE /\ response' = [response EXCEPT ![r] = FailureAnswer(session'[r].msg)]
            /\ pc' = [pc EXCEPT ![r] = "done"]
    /\ UNCHANGED <<globals, request, input_path, output_path, cmd, child>>

\* lines 360-369: send_file, which may raise.
SendFile(r, ok) ==
    /\ pc[r] = "send"
    /\ ok => held_output[r] \in files
    /\ response' = [response EXCEPT ![r] =
           IF ok THEN Answer(200, <<>>, _get_content_type(RequestedFormat(request[r].data)))
           ELSE Answer(500, Crash.msg, "")]
    /\ pc' = [pc EXCEPT ![r] = "convert-exit"]
    /\ UNCHANGED <<globals, files, request, input_path, output_path, cmd, child,
                   session, held_output, hist>>

\* convert's finally, lines 380-386.
ConvertExit(r, unlink_ok) ==
    /\ pc[r] = "convert-exit"
    /\ unlink_ok \/ (held_output[r] # <<>> /\ held_output[r] \in files)
    /\ files' = IF held_output[r] # <<>> /\ held_output[r] \in files
                THEN AfterUnlink(files, held_output[r], unlink_ok) ELSE files
    /\ hist' = [hist EXCEPT ![r].output_unlink_failed = @ \/ ~unlink_ok]
    \* lines 385-386: an exception of os.unlink is caught and logged
    /\ response' = response
    /\ pc' = [pc EXCEPT ![r] = "done"]
    /\ UNCHANGED <<globals, request, input_path, output_path, cmd, child, session,
                   held_output>>

Endpoints == OpenEndpoints \cup ProtectedEndpoints

Next ==
    \/ load_api_keys
    \/ \E r \in Req :
          /\ pc[r] = "idle"
          /\ \E endpoint \in Endpoints, api_key \in KeyChoices, data \in BodyChoices :
                /\ (endpoint = "convert" /\ api_key # VNone) \/ data = VNone
                /\ Receive(r, endpoint, api_key, data)
    \/ \E r \in Req, how \in {"ok", "open fails", "write fails"} : WriteInput(r, how)
    \/ \E r \in Req, installed \in BOOLEAN : Spawn(r, installed)
    \/ \E r \in Req : RendererWrites(r)
    \/ \E r \in Req, returncode \in {0, 1} :
          /\ pc[r] = "renderer-running"
          /\ \E stderr \in StderrChoices(input_path[r], output_path[r]) :
                /\ returncode = 0 => stderr = <<>>
                /\ RendererExits(r, returncode, stderr)
    \/ \E r \in Req : RendererTimesOut(r)
    \/ \E r \in Req, unlink_ok \in BOOLEAN : ProcessExit(r, unlink_ok)
    \/ \E r \in Req, ok \in BOOLEAN : SendFile(r, ok)
    \/ \E r \in Req, unlink_ok \in BOOLEAN : ConvertExit(r, unlink_ok)

Spec == Init /\ [][Next]_vars


(***************************************************************************)
(* Further specifications: one request, one input drawn from a wide set.   *)
(***************************************************************************)
\* The first request slot.
Solo == {r \in Req : \A q \in Req : r <= q}

ProdEnv == Environ("", <<"a">>, <<>>)
GoodKey == VStr(<<"a">>)
PlainBody == VDict(<< <<"content", SmallContent>> >>)

\* Authentication: environments and presented keys drawn widely.
DevValues == {"", "true", "TRUE", "0"}
KeySymbols == {"a", " "}
EnvSymbols == {"a", " ", ","}
MaxIndividualLen == 2

WideEnvs ==
    { Environ(dev, keys, indiv) :
        dev \in DevValues,
        keys \in TextsUpTo(EnvSymbols, MaxTextLen),
        indiv \in {<<>>} \cup {<<v>> : v \in TextsUpTo(KeySymbols, MaxIndividualLen)} }

WideKeys == {VNone} \cup {VStr(k) : k \in TextsUpTo(KeySymbols, MaxIndividualLen)}

InitAuth == InitWith(WideEnvs)

NextAuth ==
    \/ load_api_keys
    \/ \E r \in Solo :
          /\ pc[r] = "idle"
          /\ \E endpoint \in Endpoints, api_key \in WideKeys :
                Receive(r, endpoint, api_key, VNone)

SpecAuth == InitAuth /\ [][NextAuth]_vars

\* Error sanitizing: the renderer's standard error drawn widely.
ErrSymbols(inp) == Range(inp) \cup {" "}

InitOne == InitWith({ProdEnv})

NextSanitize ==
    \/ load_api_keys
    \/ \E r \in Solo : Receive(r, "convert", GoodKey, PlainBody)
    \/ \E r \in Solo : WriteInput(r, "ok")
    \/ \E r \in Solo : Spawn(r, TRUE)
    \/ \E r \in Solo :
          /\ pc[r] = "renderer-running"
          /\ \E stderr \in TextsUpTo(ErrSymbols(input_path[r]), MaxErrLen) :
                RendererExits(r, 1, stderr)
    \/ \E r \in Solo : ProcessExit(r, TRUE)

SpecSanitize == InitOne /\ [][NextSanitize]_vars

\* Argument building: the config option drawn widely.
ConfigSymbols == {"a", "b", ",", " "}

NextArgs ==
    \/ load_api_keys
    \/ \E r \in Solo :
          /\ pc[r] = "idle"
          /\ \E text \in TextsUpTo(ConfigSymbols, MaxTextLen) :
                Receive(r, "convert", GoodKey,
                        Body(SmallContent, VStr(<<"pdf">>), Opt("config", VStr(text))))
    \/ \E r \in Solo : WriteInput(r, "ok")

SpecArgs == InitOne /\ [][NextArgs]_vars

\* Options: up to MaxOptions keys in any insertion order, the value of each
\* drawn from several JSON types.
MaxOptions == 3

OptionKeys == {"transpose", "meta", "config", "diagrams", "capo"}

Title == <<"title", VStr(<<"T">>)>>
Artist == <<"artist", VStr(<<"A">>)>>

OptionValues(key) ==
    CASE key = "transpose" -> {VInt(2), VInt(-1), VBool(TRUE), VStr(<<"2">>)}
      [] key = "meta"      -> {VDict(<<>>), VDict(<<Title>>), VDict(<<Title, Artist>>),
                               VDict(<<Artist, Title>>),
                               VDict(<< <<"title", VInt(1)>> >>), VList(<<>>)}
      [] key = "config"    -> {VStr(<<"a">>), VStr(<<"a", ",", "b">>),
                               VList(<<VStr(<<"a">>), VStr(<<"b">>)>>),
                               VList(<<VInt(1)>>), VInt(1)}
      [] key = "diagrams"  -> {VBool(TRUE), VBool(FALSE), VInt(1)}
      [] OTHER             -> {VStr(<<"x">>)}

OptionPairs == UNION { {<<key, value>> : value \in OptionValues(key)} : key \in OptionKeys }

\* JSON objects: no key twice.
WideOptions ==
    { VDict(pairs) : pairs \in
        { s \in TextsUpTo(OptionPairs, MaxOptions) :
            \A i, j \in 1..Len(s) : s[i][1] = s[j][1] => i = j } }

NextOptions ==
    \/ load_api_keys
    \/ \E r \in Solo :
          /\ pc[r] = "idle"
          /\ \E options \in WideOptions :
                Receive(r, "convert", GoodKey, Body(SmallContent, VStr(<<"pdf">>), options))
    \/ \E r \in Solo : WriteInput(r, "ok")
    \/ \E r \in Solo : Spawn(r, TRUE)

SpecOptions == InitOne /\ [][NextOptions]_vars

\* Content and format: contents of few and of many characters, each character
\* encoded in 1 to 4 bytes of UTF-8; formats supported and not.
ContentLengths ==
    {1, MaxContentChars \div 4, MaxContentChars \div 4 + 1, MaxContentChars,
     MaxContentChars + 1}

WideContents == { VContent(n, n * w) : n \in ContentLengths, w \in 1..4 }

WideFormats ==
    { VStr(<<"pdf">>), VStr(<<"text">>), VStr(<<"cho">>), VStr(<<"html">>),
      VStr(<<"docx">>), VStr(<<"PDF">>), VStr(<<>>), VInt(1) }

WideBodies ==
    { VDict(<< <<"content", content>> >>) : content \in WideContents }
    \cup { VDict(<< <<"content", content>>, <<"output_format", output_format>> >>) :
             content \in WideContents, output_format \in WideFormats }

NextBody ==
    \/ load_api_keys
    \/ \E r \in Solo :
          /\ pc[r] = "idle"
          /\ \E data \in WideBodies : Receive(r, "convert", GoodKey, data)
    \/ \E r \in Solo, how \in {"ok", "write fails"} : WriteInput(r, how)
    \/ \E r \in Solo : Spawn(r, TRUE)

SpecBody == InitOne /\ [][NextBody]_vars


(***************************************************************************)
(* Properties.                                                             *)
(***************************************************************************)
\* process has returned or raised.
ProcessEnded(r) == pc[r] \in {"send", "convert-exit", "done"} /\ input_path[r] # <<>>

\* C1: once a convert request has ended, whatever its outcome, the output
\* temporary file of its session does not exist (no unlink having failed).
C1_OutputGoneAtEnd ==
    \A r \in Req :
        (/\ pc[r] = "done" /\ output_path[r] # <<>>
         /\ ~hist[r].input_unlink_failed /\ ~hist[r].output_unlink_failed)
            => output_path[r] \notin files

\* C2: once process has returned or raised after allocating its paths, the
\* input temporary file does not exist (no unlink of it having failed).
C2_InputGoneAfterProcess ==
    \A r \in Req :
        (ProcessEnded(r) /\ ~hist[r].input_unlink_failed) => input_path[r] \notin files

C2_Witness ==
    \E r \in Req :
        /\ pc[r] = "done"
        /\ session[r].outcome = "timed-out"
        /\ hist[r].written
        /\ input_path[r] \notin files

C3_Registered(api_key) ==
    /\ api_key.t = "str"
    /\ api_key.v # <<>>
    /\ \E k \in VALID_API_KEYS : k = api_key.v

\* C3: a request is refused (Unauthorized) exactly when its route is neither
\* health nor index, development mode is off, and the presented key is
\* missing, empty or equal to no stored key; otherwise the handler runs.
C3_AuthorizationDecision ==
    \A r \in Req :
        pc[r] # "idle" =>
            LET allow == \/ request[r].endpoint \in {"health", "index"}
                         \/ DEVELOPMENT_MODE
                         \/ C3_Registered(request[r].api_key)
            IN  /\ allow <=> response[r].status # 401
                /\ ~allow => response[r].msg = UnauthorizedText

C3_Witness ==
    \E r \in Req :
        /\ ~DEVELOPMENT_MODE
        /\ <<"a">> \in VALID_API_KEYS
        /\ request[r].endpoint = "convert"
        /\ request[r].api_key = VStr(<<" ", "a">>)
        /\ response[r].status = 401

\* C4: a request answered with an authorization error (401) or a validation
\* error (400) has allocated nothing: no path, no file opened or written, no
\* renderer spawned.
C4_RejectedBeforeAllocation ==
    \A r \in Req :
        response[r].status \in {400, 401} =>
            /\ pc[r] = "done"
            /\ input_path[r] = <<>> /\ output_path[r] = <<>>
            /\ ~hist[r].opened /\ ~hist[r].written
            /\ hist[r].spawned = 0 /\ child[r].state = "none"

C4_Witness ==
    \E r \in Req :
        /\ request[r].data = Body(SmallContent, VStr(<<"pdf">>), Opt("config", VInt(1)))
        /\ response[r].status = 400
        /\ \E q \in Req : q # r /\ child[q].state = "running"

C5_Leaks(msg, secret) == secret # <<>> /\ Contains(msg, secret)

\* C5: no error answer of convert contains the session's input path, its
\* output path or the renderer's command line.
C5_NoInternalsInErrors ==
    \A r \in Req :
        response[r].status \in {400, 401, 500} =>
            /\ ~C5_Leaks(response[r].msg, input_path[r])
            /\ ~C5_Leaks(response[r].msg, output_path[r])
            /\ ~C5_Leaks(response[r].msg, JoinArgs(cmd[r]))

\* C6: after a non-zero exit the error text of process contains no occurrence
\* of the input path, however often standard error named it, and is the
\* generic text when standard error was empty.
C6_InputPathRedacted ==
    \A r \in Req :
        session[r].cause = "exit" =>
            /\ ~Contains(session[r].msg, input_path[r])
            /\ child[r].stderr = <<>> =>
                  session[r].msg = <<"ChordPro processing failed: ", "Unknown ChordPro error">>
            /\ pc[r] = "done" => response[r].msg = session[r].msg

\* Number of places where p occurs in s.
C6_Occurrences(s, p) == Cardinality({i \in 1..Len(s) : StartsWithAt(s, p, i)})

C6_Witness ==
    \E r \in Req :
        /\ pc[r] = "done"
        /\ C6_Occurrences(child[r].stderr, input_path[r]) >= 2
        /\ response[r].status = 500

\* C7: process succeeds only if the renderer exited with code 0 and the output
\* file exists when process decides; an exit 0 without the file is a failure.
C7_SuccessNeedsOutput ==
    \A r \in Req :
        /\ session[r].outcome = "succeeded" =>
              /\ child[r].state = "exited" /\ child[r].returncode = 0
              /\ pc[r] = "process-exit" => output_path[r] \in files
        /\ held_output[r] # <<>> =>
              /\ session[r].outcome = "succeeded"
              /\ held_output[r] = output_path[r]

C7_Witness ==
    \E r \in Req :
        /\ child[r].state = "exited" /\ child[r].returncode = 0
        /\ session[r].outcome = "failed" /\ session[r].cause = "missing"
        /\ response[r].status = 500

\* C8: a renderer that runs past the timeout is killed and the session ends
\* timed-out with the timeout text, a text no other failure carries; no
\* renderer is running once process has raised.
C8_TimeoutIsDistinct ==
    \A r \in Req :
        /\ child[r].state = "killed" =>
              session[r].outcome = "timed-out" /\ session[r].msg = TimeoutMessage
        /\ session[r].outcome = "failed" => session[r].msg # TimeoutMessage
        /\ ProcessEnded(r) => child[r].state # "running"
        /\ (pc[r] = "done" /\ session[r].outcome = "timed-out") =>
              response[r] = Answer(500, TimeoutMessage, "")

C8_Witness ==
    \E r \in Req :
        /\ pc[r] = "done"
        /\ child[r].state = "killed"
        /\ response[r].msg = TimeoutMessage

C9_ExpectedFlags(text) == ConfigArgsOfTexts(FilterNonEmpty(MapStrip(Split(text, ","))))

\* C9: a string config yields exactly one --config flag per non-empty piece
\* (split on commas, trimmed), in order; empty pieces yield no flag.
C9_OneFlagPerNonEmptyPiece ==
    \A r \in Req :
        (pc[r] = "input-written" /\ HasKey(RequestedOptions(request[r].data), "config")) =>
            LET config == Item(RequestedOptions(request[r].data), "config")
            IN  config.t = "str" =>
                    cmd[r] = <<VStr(<<"chordpro">>), VStr(input_path[r]), VStr(<<"-o">>),
                               VStr(output_path[r])>> \o C9_ExpectedFlags(config.v)

C10_NoKeyConfigured(env) ==
    /\ \A i \in 1..Len(Split(env.API_KEYS, ",")) : Strip(Split(env.API_KEYS, ",")[i]) = <<>>
    /\ \A i \in 1..Len(env.API_KEY_) : env.API_KEY_[i] = <<>>

\* C10: the service serves only if development mode is on or a key was
\* loaded; with development mode off and no key in API_KEYS or in any
\* API_KEY_* variable the process exits, and no request is ever received.
C10_ServesOnlyWithKeysOrDevMode ==
    /\ started = "serving" => (DEVELOPMENT_MODE \/ VALID_API_KEYS # {})
    /\ (started # "import" /\ C10_NoKeyConfigured(environ)
          /\ Lower(environ.DEVELOPMENT_MODE) \notin {"true", "1", "yes", "on"})
         => started = "exited"
    /\ \A r \in Req : pc[r] # "idle" => started = "serving"

C10_Witness ==
    /\ started = "exited"
    /\ environ.API_KEYS # <<>>
    /\ environ.API_KEY_ # <<>>

C11_AllStr(items) == \A i \in 1..Len(items) : items[i].t = "str"

\* The types the options are declared to have.
C11_WellTyped(options) ==
    /\ HasKey(options, "transpose") => Item(options, "transpose").t = "int"
    /\ HasKey(options, "meta") =>
          /\ Item(options, "meta").t = "dict"
          /\ \A i \in 1..Len(Item(options, "meta").v) :
                Item(options, "meta").v[i][2].t = "str"
    /\ HasKey(options, "diagrams") => Item(options, "diagrams").t = "bool"
    /\ HasKey(options, "config") =>
          \/ Item(options, "config").t = "str"
          \/ Item(options, "config").t = "list" /\ C11_AllStr(Item(options, "config").v)

\* C11: every options object for which convert has the command built has the
\* declared types: transpose an integer and no boolean, meta an object of
\* strings, diagrams a boolean, config a string or a list of strings.
C11_BuilderSeesTypedOptions ==
    \A r \in Req :
        cmd[r] # <<>> => C11_WellTyped(RequestedOptions(request[r].data))

\* is_valid_api_key has been called for the request of r.
C12_Checked(r) ==
    /\ pc[r] # "idle"
    /\ request[r].endpoint \notin {"health", "index"}
    /\ ~DEVELOPMENT_MODE
    /\ request[r].api_key.t = "str" /\ request[r].api_key.v # <<>>

\* C12: for every non-empty candidate, matching or not, is_valid_api_key
\* makes as many comparisons as there are stored keys.
C12_ComparesEveryKey ==
    \A r \in Req :
        C12_Checked(r) => hist[r].compared = Cardinality(VALID_API_KEYS)

C13_Terminal == {"succeeded", "failed", "timed-out"}

\* Where a session stands agrees with what it has done.
C13_Stages(r) ==
    /\ hist[r].spawned <= 1
    /\ hist[r].spawned = 1 => hist[r].written
    /\ session[r].cause = "write" => (session[r].outcome = "failed" /\ hist[r].spawned = 0)
    /\ session[r].outcome \in {"succeeded", "timed-out"} => hist[r].spawned = 1
    /\ pc[r] = "created" =>
          ~hist[r].written /\ hist[r].spawned = 0 /\ session[r].outcome = "none"
    /\ pc[r] = "input-written" =>
          hist[r].written /\ hist[r].spawned = 0 /\ session[r].outcome = "none"
    /\ pc[r] = "renderer-running" =>
          hist[r].spawned = 1 /\ session[r].outcome = "none"
    /\ (pc[r] = "process-exit" \/ ProcessEnded(r)) => session[r].outcome \in C13_Terminal

\* A session moves forward only, and an ended session stays as it ended.
C13_Moves(r) ==
    /\ pc[r] = "created" => pc'[r] \in {"created", "input-written", "process-exit"}
    /\ pc[r] = "input-written" =>
          pc'[r] \in {"input-written", "renderer-running", "process-exit"}
    /\ pc[r] = "renderer-running" => pc'[r] \in {"renderer-running", "process-exit"}
    /\ session[r].outcome \in C13_Terminal =>
          /\ session'[r] = session[r]
          /\ hist'[r].spawned = hist[r].spawned
          /\ hist'[r].written = hist[r].written
          /\ pc'[r] \notin {"created", "input-written", "renderer-running"}

\* C13: a session goes created, input-written, renderer-running, then one of
\* succeeded, failed, timed-out; the renderer is spawned at most once and only
\* after the input was written in full (a write failure ends failed without a
\* spawn); an ended session keeps its outcome and is never run again.
C13_Lifecycle ==
    /\ [](\A r \in Req : C13_Stages(r))
    /\ [][\A r \in Req : C13_Moves(r)]_vars

C13_Witness ==
    \E r, q \in Req :
        /\ pc[r] = "done" /\ session[r].cause = "write"
        /\ hist[r].opened /\ hist[r].spawned = 0
        /\ pc[q] = "done" /\ session[q].outcome = "succeeded" /\ hist[q].spawned = 1

C14_Paths(r) == {input_path[r], output_path[r]} \ {<<>>}

\* The step is one of r's own.
C14_Moves(r) == pc'[r] # pc[r] \/ hist'[r] # hist[r]

\* How r ends when the only files it meets are those it made itself.
C14_OutcomeAlone(r) ==
    IF ~hist[r].written THEN "failed"
    ELSE IF hist[r].spawned = 0 THEN "failed"
    ELSE IF child[r].state = "killed" THEN "timed-out"
    ELSE IF child[r].returncode # 0 THEN "failed"
    ELSE IF ~hist[r].rendered THEN "failed"
    ELSE "succeeded"

C14_Apart ==
    \A r \in Req :
        /\ \A q \in Req \ {r} : C14_Paths(r) \cap C14_Paths(q) = {}
        /\ input_path[r] # <<>> => input_path[r] # output_path[r]
        /\ input_path[r] \in files => hist[r].opened
        /\ output_path[r] \in files => hist[r].rendered
        /\ session[r].outcome # "none" => session[r].outcome = C14_OutcomeAlone(r)

C14_StepsApart ==
    /\ \A r \in Req :
          ~C14_Moves(r) =>
              /\ \A path \in C14_Paths(r) : path \in files' <=> path \in files
              /\ session'[r] = session[r]
              /\ response'[r] = response[r]
    /\ started # "import" =>
          UNCHANGED <<VALID_API_KEYS, key_order, DEVELOPMENT_MODE>>

\* C14: however the steps of concurrent sessions interleave, their temporary
\* paths are pairwise distinct, a file exists only by its own session's doing
\* and is created or deleted by no step of another session, a session ends as
\* its own events alone determine, and the credential set and the development
\* flag are not written once the service serves.
C14_SessionsIsolated == []C14_Apart /\ [][C14_StepsApart]_vars

C14_Witness ==
    \E r, q \in Req :
        /\ r # q
        /\ pc[r] = "renderer-running" /\ output_path[r] \in files
        /\ input_path[r] \in files
        /\ pc[q] = "process-exit" /\ session[q].cause = "missing"
        /\ request[q].data = request[r].data

\* The cleanup steps of r leave what the try blocks decided.
C15_CleanupKeepsOutcome(r) ==
    /\ (pc[r] = "process-exit" /\ pc'[r] # "process-exit") =>
          /\ session'[r] = session[r]
          /\ session[r].outcome = "succeeded" =>
                (pc'[r] = "send" /\ held_output'[r] = output_path[r])
          /\ session[r].outcome # "succeeded" =>
                (pc'[r] = "done" /\ response'[r] = Answer(500, session[r].msg, ""))
    /\ (pc[r] = "convert-exit" /\ pc'[r] # "convert-exit") =>
          (pc'[r] = "done" /\ response'[r] = response[r])

\* C15: a temporary file that cannot be deleted changes no outcome: process
\* returns or raises as its try block ended and convert answers as it had
\* decided, whether or not os.unlink failed.
C15_UnlinkFailureKeepsOutcome ==
    /\ [](\A r \in Req :
            (pc[r] = "done" /\ session[r].outcome \in {"failed", "timed-out"}) =>
                response[r] = Answer(500, session[r].msg, ""))
    /\ [][\A r \in Req : C15_CleanupKeepsOutcome(r)]_vars

C15_Witness ==
    \E r, q \in Req :
        /\ pc[r] = "done" /\ response[r].status = 200
        /\ hist[r].input_unlink_failed /\ hist[r].output_unlink_failed
        /\ pc[q] = "done" /\ hist[q].input_unlink_failed
        /\ session[q].outcome = "timed-out" /\ response[q].msg = TimeoutMessage

\* C16: no content whose UTF-8 encoding is longer than 1,048,576 bytes is
\* written to an input file, or even has one opened for it: convert answers
\* it 400, also when it has no more than 1,048,576 characters.
C16_NoOversizeInput ==
    \A r \in Req :
        (/\ request[r].endpoint = "convert"
         /\ response[r].status # 401
         /\ request[r].data.t = "dict"
         /\ Get(request[r].data, "content", VNone).t = "str"
         /\ Get(request[r].data, "content", VNone).bytes > 1024 * 1024)
            => /\ ~hist[r].opened /\ ~hist[r].written
               /\ pc[r] = "done" => response[r].status = 400

C18_Formats == {<<"pdf">>, <<"text">>, <<"cho">>, <<"html">>}

\* process has been called for the request of r: the key was accepted and the
\* body passed convert's validation.
C18_ProcessCalled(r) ==
    /\ pc[r] # "idle"
    /\ request[r].endpoint = "convert"
    /\ response[r].status \notin {400, 401}
    /\ request[r].data.t = "dict"

\* C18: process called with a format other than pdf, text, cho, html ends at
\* once in an error (answered 500), with no path allocated, no command built,
\* no file opened and no renderer spawned; and a renderer is only ever spawned
\* with an output path ending in "." and one of the four formats.
C18_UnsupportedFormatDoesNothing ==
    \A r \in Req :
        /\ (C18_ProcessCalled(r) /\ RequestedFormat(request[r].data) \notin C18_Formats) =>
              /\ pc[r] = "done"
              /\ response[r] = Answer(500, <<"Processing failed">>, "")
              /\ input_path[r] = <<>> /\ output_path[r] = <<>>
              /\ cmd[r] = <<>>
              /\ ~hist[r].opened /\ ~hist[r].written
              /\ hist[r].spawned = 0 /\ child[r].state = "none"
        /\ hist[r].spawned > 0 =>
              \E output_format \in C18_Formats :
                  /\ output_path[r] = <<"/tmp/output_", Uuid4(r), ".">> \o output_format
                  /\ cmd[r][4] = VStr(output_path[r])

C18_Witness ==
    \E r \in Req :
        /\ pc[r] = "done"
        /\ response[r].status = 500
        /\ RequestedFormat(request[r].data) = <<"PDF">>
        /\ Get(request[r].data, "content", VNone).chars = MaxContentChars

\* One --meta key=value per pair, in the order of the object.
RECURSIVE C17_Meta(_)
C17_Meta(pairs) ==
    IF pairs = <<>> THEN <<>>
    ELSE <<VStr(<<"--meta">>), VStr(<<Head(pairs)[1], "=">> \o PyStr(Head(pairs)[2]))>>
         \o C17_Meta(Tail(pairs))

\* The option tokens, group by group.
C17_Groups(options) ==
    << IF HasKey(options, "transpose")
       THEN <<VStr(<<"--transpose">>), VStr(PyStr(Item(options, "transpose")))>>
       ELSE <<>>,
       IF HasKey(options, "meta") THEN C17_Meta(Item(options, "meta").v) ELSE <<>>,
       IF HasKey(options, "config") THEN ConfigArgs(Item(options, "config")) ELSE <<>>,
       IF ~HasKey(options, "diagrams") THEN <<>>
       ELSE IF Item(options, "diagrams") = VBool(TRUE) THEN <<VStr(<<"--diagrams">>)>>
       ELSE <<VStr(<<"--no-diagrams">>)>> >>

\* C17: the command is chordpro, the input path, -o, the output path, then the
\* tokens of transpose, of meta (one --meta key=value per pair, in the order
\* of the object), of config and of diagrams (--diagrams, --no-diagrams or
\* nothing), in this order whatever the order of the keys; other keys add
\* nothing.
C17_CommandShape ==
    \A r \in Req :
        cmd[r] # <<>> =>
            LET groups == C17_Groups(RequestedOptions(request[r].data))
            IN  cmd[r] = <<VStr(<<"chordpro">>), VStr(input_path[r]), VStr(<<"-o">>),
                           VStr(output_path[r])>>
                         \o groups[1] \o groups[2] \o groups[3] \o groups[4]

C17_Witness ==
    \E r \in Req :
        /\ RequestedOptions(request[r].data) =
              VDict(<< <<"diagrams", VBool(FALSE)>>, <<"meta", VDict(<<Artist, Title>>)>>,
                       <<"transpose", VInt(-1)>> >>)
        /\ Len(cmd[r]) = 11
        /\ cmd[r][5] = VStr(<<"--transpose">>)
        /\ cmd[r][8] = VStr(<<"artist", "=", "A">>)
        /\ cmd[r][11] = VStr(<<"--no-diagrams">>)

\* C19: with development mode off, every credential stored by load_api_keys
\* is a non-empty text, so that a served request can present a key that
\* is_valid_api_key accepts.
C19_StoredKeysUsable ==
    (started = "serving" /\ ~DEVELOPMENT_MODE) =>
        /\ \A valid_key \in VALID_API_KEYS : valid_key # <<>>
        /\ \E valid_key \in VALID_API_KEYS : is_valid_api_key(VStr(valid_key), VALID_API_KEYS)

=============================================================================
